---------------------------- MODULE Spec2Model ----------------------------
(***************************************************************************)
(* A model of ae-server: the release-state ticker (_creative_daemon), the  *)
(* HTTP handlers over the chat and mail tables and the seed file, and the   *)
(* two copies of the geo-point generator (server.creative_track_to_points   *)
(* and creative_geo.build_creative_points).                                 *)
(*                                                                          *)
(* Real quantities are fixed-point integers: the release state in units of *)
(* 1/100000 (hype 100.0 is 10000000, listing_pressure 0.02 is 2000),       *)
(* coordinates in units of 1/10000 degree.  dt is in tenths of a second,    *)
(* random.random() draws are in tenths (u) or hundredths (roll).  Python's  *)
(* None is the empty sequence <<>> and a present value v is <<v>>.          *)
(***************************************************************************)
EXTENDS Integers, Sequences, FiniteSets, TLC

VARIABLES
    rs,        \* _release_state (server.py:114)
    market,    \* the module global `market` (server.py:230)
    ticks,     \* completed iterations of the daemon loop
    alive,     \* FALSE once the daemon thread has died of an exception
    pcD,       \* where the daemon thread is
    lockHolder,\* who holds _release_lock: "none" or "daemon"
    dRead,     \* what the running tick has read from `market` so far
    chat,      \* table chat of fud.db: a set of rows
    mail,      \* table mail of mail.db: the emails in insertion order
    seedFile,  \* the file at DATA_PATH: whether it exists, parses, and its track
    lastReq,   \* the last HTTP request handled
    resp,      \* what its handler returned, or that it raised
    track,     \* the track handed to the geo-point generators
    calls,     \* the generator calls made so far, with what each returned
    now,       \* time.time() in milliseconds
    ipIn,      \* arguments of the last _interpolate / interpolate call
    ipOut      \* its result

tickerVars == <<rs, market, ticks, alive, pcD, lockHolder, dRead>>
webVars == <<chat, mail, lastReq, resp>>
geoVars == <<track, calls, now>>
ipVars == <<ipIn, ipOut>>

vars == <<rs, market, ticks, alive, pcD, lockHolder, dRead,
          chat, mail, seedFile, lastReq, resp,
          track, calls, now, ipIn, ipOut>>

Max(a, b) == IF a >= b THEN a ELSE b
Min(a, b) == IF a <= b THEN a ELSE b

None == <<>>
Some(v) == <<v>>
IsNone(o) == o = <<>>
Val(o) == o[1]

(***************************************************************************)
(* Python string operations, on TLC strings.                                *)
(***************************************************************************)
Ch(s, i) == SubSeq(s, i, i)

\* `w in s`
Contains(s, w) ==
    \E i \in 1..(Len(s) - Len(w) + 1) : SubSeq(s, i, i + Len(w) - 1) = w

Whitespace == {" ", "\t", "\n", "\r"}

RECURSIVE LStrip(_)
LStrip(s) ==
    IF Len(s) > 0 /\ Ch(s, 1) \in Whitespace THEN LStrip(SubSeq(s, 2, Len(s))) ELSE s

RECURSIVE RStrip(_)
RStrip(s) ==
    IF Len(s) > 0 /\ Ch(s, Len(s)) \in Whitespace
    THEN RStrip(SubSeq(s, 1, Len(s) - 1)) ELSE s

\* str.strip()
Strip(s) == RStrip(LStrip(s))

LowerLetters == "abcdefghijklmnopqrstuvwxyz"
UpperLetters == "ABCDEFGHIJKLMNOPQRSTUVWXYZ"
Digits == "0123456789"
CharsOf(s) == {Ch(s, i) : i \in 1..Len(s)}

LowerSet == CharsOf(LowerLetters)
UpperSet == CharsOf(UpperLetters)
DigitSet == CharsOf(Digits)

UpperOf ==
    [c \in LowerSet |->
        Ch(UpperLetters, CHOOSE i \in 1..Len(LowerLetters) : Ch(LowerLetters, i) = c)]
LowerOf ==
    [c \in UpperSet |->
        Ch(LowerLetters, CHOOSE i \in 1..Len(UpperLetters) : Ch(UpperLetters, i) = c)]

ToUpper(c) == IF c \in LowerSet THEN UpperOf[c] ELSE c
ToLower(c) == IF c \in UpperSet THEN LowerOf[c] ELSE c

RECURSIVE LowerAll(_)
LowerAll(s) ==
    IF Len(s) = 0 THEN "" ELSE ToLower(Ch(s, 1)) \o LowerAll(SubSeq(s, 2, Len(s)))

\* str.capitalize(): first character upper-cased, the rest lower-cased
Capitalize(s) ==
    IF Len(s) = 0 THEN "" ELSE ToUpper(Ch(s, 1)) \o LowerAll(SubSeq(s, 2, Len(s)))

(***************************************************************************)
(* The geo-point generator, server.py.  A point is <<lon, lat>>.            *)
(***************************************************************************)
\* REGION_ANCHORS.get(name): None when the name is no key
ServerAnchor(name) ==
    CASE name = "gallery" -> Some(<<-739857, 407580>>)
      [] name = "tiktok" -> Some(<<1396917, 356895>>)
      [] name = "mainstream" -> Some(<<23522, 488566>>)
      [] name = "collectors" -> Some(<<-1276, 515072>>)
      [] name = "niche" -> Some(<<184233, -339180>>)
      [] OTHER -> None

\* EVENT_TO_REGION.get(ev): None for "drop" and for an event that is no key
EventToRegion(ev) ==
    CASE ev = "teaser" -> Some("niche")
      [] ev = "collab_reveal" -> Some("mainstream")
      [] ev = "critic_preview" -> Some("gallery")
      [] ev = "drop" -> None
      [] ev = "record_sale" -> Some("collectors")
      [] ev = "controversy" -> Some("mainstream")
      [] ev = "award" -> Some("gallery")
      [] ev = "platform_boost" -> Some("tiktok")
      [] ev = "supply_extension" -> Some("collectors")
      [] OTHER -> None

\* FirstMaxKey with min for max
FirstMinKey(following) ==
    LET i == CHOOSE k \in 1..Len(following) :
                 /\ \A j \in 1..Len(following) : following[j][2] >= following[k][2]
                 /\ \A j \in 1..(k - 1) : following[j][2] > following[k][2]
    IN following[i][1]

\* max(following.items(), key=lambda kv: kv[1])[0]: the first pair, in the
\* dict's order, whose weight no pair exceeds.  following is a sequence of
\* <<key, weight>> pairs.
FirstMaxKey(following) ==
    LET i == CHOOSE k \in 1..Len(following) :
                 /\ \A j \in 1..Len(following) : following[j][2] <= following[k][2]
                 /\ \A j \in 1..(k - 1) : following[j][2] < following[k][2]
    IN following[i][1]

\* _dominant_region(following)
DominantRegion(following) ==
    IF Len(following) = 0 THEN None ELSE Some(FirstMaxKey(following))

\* track.get("following") or {}
FollowingOf(t) == IF IsNone(t.following) THEN <<>> ELSE Val(t.following)

\* home = _dominant_region(following) or "mainstream"
ServerHome(t) ==
    LET d == DominantRegion(FollowingOf(t)) IN
    IF IsNone(d) \/ d = Some("") THEN "mainstream" ELSE Val(d)

\* Lerp with b + a for b - a
LerpSignSlip(a, b, tn, td) == a + ((b + a) * tn) \div td

\* _lerp(a, b, t) with t = tn/td
Lerp(a, b, tn, td) == a + ((b - a) * tn) \div td

\* _interpolate(lon1, lat1, lon2, lat2, steps)
Interpolate(lon1, lat1, lon2, lat2, steps) ==
    [i \in 1..steps |-> <<Lerp(lon1, lon2, i, steps), Lerp(lat1, lat2, i, steps)>>]

\* beat.get("delta", {}).get(k, 0) for k in hype, press, virality
DeltaOf(beat) ==
    IF IsNone(beat.delta) THEN [hype |-> 0, press |-> 0, virality |-> 0]
    ELSE Val(beat.delta)

\* StepsFor without the short hops
StepsAlwaysEight(ev) == 8

\* steps = 4 if ev in ("teaser", "critic_preview") else 8
StepsFor(ev) == IF ev \in {"teaser", "critic_preview"} THEN 4 ELSE 8

\* the dict appended for one interpolation step (the constant members "type",
\* "country" and "distance" are left out)
Feature(t, ev, beat, region, tgt, ts, pt) ==
    [artist |-> t.artist, release |-> t.release, event |-> ev,
     hype |-> DeltaOf(beat).hype, press |-> DeltaOf(beat).press,
     virality |-> DeltaOf(beat).virality,
     proximity |-> [name |-> Capitalize(region), lat |-> tgt[2], lon |-> tgt[1]],
     timestamp |-> ts, coordinates |-> pt]

\* ev = (beat.get("event") or "").strip()
ServerEvent(beat) == Strip(IF IsNone(beat.event) THEN "" ELSE Val(beat.event))

\* the body of `for beat in beats:` and the rest of the loop after it
RECURSIVE ServerBeats(_, _, _, _, _)
ServerBeats(t, beats, home, cur, ts) ==
    IF Len(beats) = 0 THEN <<>>
    ELSE LET beat == Head(beats)
             ev == ServerEvent(beat)
             mapped == EventToRegion(ev)
             target_region == IF IsNone(mapped) THEN home ELSE Val(mapped)
             anchor == ServerAnchor(target_region)
             tgt == IF IsNone(anchor) THEN cur ELSE Val(anchor)
             steps == StepsFor(ev)
             pts == Interpolate(cur[1], cur[2], tgt[1], tgt[2], steps)
         IN [i \in 1..steps |->
                Feature(t, ev, beat, target_region, tgt, ts + 200 * (i - 1), pts[i])]
            \o ServerBeats(t, Tail(beats), home, tgt, ts + 200 * steps)

\* beats = track.get("beats") or []
ServerBeatsOf(t) == IF IsNone(t.beats) THEN <<>> ELSE Val(t.beats)

\* hx, hy = REGION_ANCHORS.get(home, REGION_ANCHORS["mainstream"]);
\* cur_lon, cur_lat = hx - 10.0, hy
ServerStart(home) ==
    LET a == ServerAnchor(home)
        h == IF IsNone(a) THEN Val(ServerAnchor("mainstream")) ELSE Val(a)
    IN <<h[1] - 100000, h[2]>>

\* CreativeTrackToPoints with ts started at the wall clock, as the copy in
\* creative_geo.py starts it
ClockedTrackToPoints(t) ==
    ServerBeats(t, ServerBeatsOf(t), ServerHome(t), ServerStart(ServerHome(t)), now)

\* creative_track_to_points(track)
CreativeTrackToPoints(t) ==
    ServerBeats(t, ServerBeatsOf(t), ServerHome(t), ServerStart(ServerHome(t)), 0)

(***************************************************************************)
(* The geo-point generator, hurricane_data/creative_geo.py.  ev is          *)
(* beat.get("event") as it stands: None or the string, not stripped.        *)
(***************************************************************************)
GeoAnchor(name) ==
    CASE name = "mainstream" -> Some(<<-739857, 407580>>)
      [] name = "tiktok" -> Some(<<1396917, 356895>>)
      [] name = "gallery" -> Some(<<23522, 488566>>)
      [] name = "collectors" -> Some(<<-1276, 515072>>)
      [] name = "niche" -> Some(<<184233, -339180>>)
      [] OTHER -> None

GeoEventToRegion(ev) == IF IsNone(ev) THEN None ELSE EventToRegion(Val(ev))

\* dominant_region(following) or "mainstream"
GeoHome(t) ==
    LET f == FollowingOf(t)
        d == IF Len(f) = 0 THEN None ELSE Some(FirstMaxKey(f))
    IN IF IsNone(d) \/ d = Some("") THEN "mainstream" ELSE Val(d)

\* lerp(a, b, t)
GeoLerp(a, b, tn, td) == a + ((b - a) * tn) \div td

\* interpolate(lon1, lat1, lon2, lat2, steps)
GeoInterpolate(lon1, lat1, lon2, lat2, steps) ==
    [i \in 1..steps |->
        <<GeoLerp(lon1, lon2, i, steps), GeoLerp(lat1, lat2, i, steps)>>]

GeoStepsFor(ev) ==
    IF ev \in {Some("teaser"), Some("critic_preview")} THEN 4 ELSE 8

RECURSIVE GeoBeats(_, _, _, _, _)
GeoBeats(t, beats, home, cur, ts) ==
    IF Len(beats) = 0 THEN <<>>
    ELSE LET beat == Head(beats)
             ev == beat.event
             mapped == GeoEventToRegion(ev)
             target_region == IF IsNone(mapped) THEN home ELSE Val(mapped)
             anchor == GeoAnchor(target_region)
             tgt == IF IsNone(anchor) THEN cur ELSE Val(anchor)
             steps == GeoStepsFor(ev)
             pts == GeoInterpolate(cur[1], cur[2], tgt[1], tgt[2], steps)
         IN [i \in 1..steps |->
                Feature(t, ev, beat, target_region, tgt, ts + 200 * (i - 1), pts[i])]
            \o GeoBeats(t, Tail(beats), home, tgt, ts + 200 * steps)

\* beats = track.get("beats", [])
GeoBeatsOf(t) == IF IsNone(t.beats) THEN <<>> ELSE Val(t.beats)

GeoStart(home) ==
    LET a == GeoAnchor(home)
        h == IF IsNone(a) THEN Val(GeoAnchor("mainstream")) ELSE Val(a)
    IN <<h[1] - 100000, h[2]>>

\* build_creative_points(track), called when int(time.time() * 1000) is clock
BuildCreativePoints(t, clock) ==
    GeoBeats(t, GeoBeatsOf(t), GeoHome(t), GeoStart(GeoHome(t)), clock)

(***************************************************************************)
(* Inputs of the generators.                                                *)
(***************************************************************************)
MaxBeats == 2
MaxCalls == 2
MaxClock == 1

FullDelta == Some([hype |-> 12, press |-> 7, virality |-> 3])

\* beats: mapped, padded, home-bound ("drop") and unmapped events
BeatSet ==
    { [event |-> Some("teaser"), delta |-> FullDelta],
      [event |-> Some(" critic_preview "), delta |-> None],
      [event |-> Some("drop"), delta |-> FullDelta],
      [event |-> Some("platform_boost"), delta |-> None],
      [event |-> Some("rumour"), delta |-> None] }

\* following maps: absent, empty, {"a": 0.9, "b": 0.1}, and a map over the
\* program's regions whose greatest weight comes twice, neither time first
FollowingSet ==
    { None,
      Some(<<>>),
      Some(<< <<"a", 9>>, <<"b", 1>> >>),
      Some(<< <<"niche", 3>>, <<"tiktok", 5>>, <<"gallery", 5>> >>) }

BeatSeqs == UNION {[1..n -> BeatSet] : n \in 0..MaxBeats}

TrackSet ==
    { [artist |-> "Nova Aria", release |-> "Chromatic Drift",
       following |-> f, beats |-> b] :
         f \in FollowingSet, b \in {None} \cup {Some(q) : q \in BeatSeqs} }

(***************************************************************************)
(* The release state and the market snapshot.                               *)
(***************************************************************************)
MaxTicks == 2
MaxLongTicks == 8
MaxRaceTicks == 1

\* now - last_tick in tenths of a second: below the floor 0.2 of dt, the
\* nominal 1.0 of time.sleep(1.0), and a stalled thread (25 s).
DtSet == {0, 10, 250}
\* random.random() in tenths (it is < 1.0, so 9 is the top of the grid)
RandSet == {0, 9}
\* random.random() in hundredths: the top of each branch of the roll
RollSet == {19, 37, 53, 63, 81, 99}

\* Program constants, in units of 1/100000 (DtFloor in tenths of a second)
HypeDecay == 12000
PressDecay == 8000
ViralityDecay == 150
ListingDecay == 400
ListingFloor == 2000
DtFloor == 2
HypePerBid == 15000
HypeBidCap == 200000
ListingPerPressure == 2000
ListingCap == 60000
BidPressureNoAsks == 2
ViralityCap == 100000
SaleDefaultFloor == 10000000
InitialListing == 10000

DefaultFollowing ==
    << <<"mainstream", 30>>, <<"tiktok", 30>>, <<"gallery", 20>>,
       <<"collectors", 15>>, <<"niche", 5>> >>

\* _release_state at import; _prev_price is absent until a tick sets it
InitialReleaseState ==
    [artist |-> "-", release |-> "-", event |-> "",
     hype |-> 0, press |-> 0, virality |-> 0,
     listing_pressure |-> InitialListing,
     following |-> DefaultFollowing,
     sold |-> 0, editions |-> 0, floor |-> None, prev_price |-> None]

\* market = {} at import: a dict with no bid_list, ask_list or price.
\* sized: len() works on bid_list and ask_list.
InitialMarket ==
    [isDict |-> TRUE, sized |-> TRUE, bids |-> 0, asks |-> 0, price |-> None]

\* Snapshots update_market may install: a non-dict, a dict whose bid_list has
\* no len(), and two books at different prices.
MarketSet ==
    { [isDict |-> FALSE, sized |-> TRUE, bids |-> 0, asks |-> 0, price |-> None],
      [isDict |-> TRUE, sized |-> FALSE, bids |-> 0, asks |-> 0, price |-> None],
      [isDict |-> TRUE, sized |-> TRUE, bids |-> 3, asks |-> 0, price |-> Some(10000000)],
      [isDict |-> TRUE, sized |-> TRUE, bids |-> 20, asks |-> 1, price |-> Some(9000000)] }

\* _load_release_seed(), then _release_state.update(seed): a missing or
\* malformed file gives {}
SeedUpdate(r, file) ==
    IF ~file.exists \/ ~file.parses THEN r
    ELSE [r EXCEPT !.artist = file.track.artist, !.release = file.track.release,
                   !.following = IF IsNone(file.track.following) THEN r.following
                                 ELSE Val(file.track.following)]

\* ApplyDecay without the max(...) floors
ApplyDecayUnclamped(r, dt) ==
    [r EXCEPT
        !.hype = r.hype - (HypeDecay * dt) \div 10,
        !.press = r.press - (PressDecay * dt) \div 10,
        !.virality = r.virality - (ViralityDecay * dt) \div 10,
        !.listing_pressure = r.listing_pressure - (ListingDecay * dt) \div 10]

\* _apply_decay(rs, dt)
ApplyDecay(r, dt) ==
    [r EXCEPT
        !.hype = Max(0, r.hype - (HypeDecay * dt) \div 10),
        !.press = Max(0, r.press - (PressDecay * dt) \div 10),
        !.virality = Max(0, r.virality - (ViralityDecay * dt) \div 10),
        !.listing_pressure =
            Max(ListingFloor, r.listing_pressure - (ListingDecay * dt) \div 10)]

\* 0.02 * bid_pressure, bid_pressure = (bids / asks) if asks else
\* (2.0 if bids else 0.0)
PressureTerm(bids, asks) ==
    IF asks # 0 THEN (ListingPerPressure * bids) \div asks
    ELSE IF bids # 0 THEN ListingPerPressure * BidPressureNoAsks
    ELSE 0

\* (rs.get("floor") or price): a floor of None or 0 is falsy
FloorOr(fl, price) == IF IsNone(fl) \/ fl = Some(0) THEN price ELSE Val(fl)

\* the floor after `if rs.get("_prev_price") is not None:`
FloorFromPrice(r, price) ==
    IF IsNone(r.prev_price) THEN r.floor
    ELSE LET dp == price - Val(r.prev_price) IN
         IF dp > 0 THEN Some(FloorOr(r.floor, price) + (dp * 4) \div 10)
         ELSE Some(FloorOr(r.floor, price) + (dp * 2) \div 10)

\* _apply_market_influence(rs), on what it read from `market`: len(bid_list),
\* len(ask_list) and price
ApplyMarketInfluence(r, bids, asks, price) ==
    LET r1 == [r EXCEPT
                 !.hype = r.hype + Min(HypeBidCap, HypePerBid * bids),
                 !.listing_pressure =
                     Min(ListingCap, r.listing_pressure + PressureTerm(bids, asks))]
    IN IF IsNone(price) THEN r1
       ELSE [r1 EXCEPT !.floor = FloorFromPrice(r1, Val(price)),
                       !.prev_price = price]

\* _fire_micro_event(rs): roll picks the branch, u is the second draw
FireMicroEvent(r, roll, u) ==
    IF roll < 20 THEN
        [r EXCEPT !.event = "platform_boost",
                  !.virality = Min(ViralityCap, r.virality + 3000 + u * 400)]
    ELSE IF roll < 38 THEN
        [r EXCEPT !.event = "collab_reveal",
                  !.hype = r.hype + 600000 + u * 80000]
    ELSE IF roll < 54 THEN
        [r EXCEPT !.event = "critic_preview",
                  !.press = r.press + 600000 + u * 60000]
    ELSE IF roll < 64 THEN
        [r EXCEPT !.event = "record_sale",
                  !.listing_pressure = Min(ListingCap, r.listing_pressure + 5000),
                  !.floor = Some((IF IsNone(r.floor) \/ r.floor = Some(0)
                                    THEN SaleDefaultFloor ELSE Val(r.floor))
                                 + 400000 + u * 120000)]
    ELSE IF roll < 82 THEN
        [r EXCEPT !.event = "teaser",
                  !.hype = r.hype + 300000 + u * 40000]
    ELSE [r EXCEPT !.event = ""]

\* whether _apply_market_influence raises on this snapshot (len() of a
\* bid_list that has none)
MarketRaises(m) == m.isDict /\ ~m.sized

\* the body of `with _release_lock:` in the loop, on one snapshot m; when
\* the snapshot raises, the decay has been applied and nothing else
TickBody(r, m, dt, roll, u) ==
    IF MarketRaises(m) THEN ApplyDecay(r, dt)
    ELSE FireMicroEvent(
            IF m.isDict THEN ApplyMarketInfluence(ApplyDecay(r, dt), m.bids, m.asks, m.price)
            ELSE ApplyDecay(r, dt),
            roll, u)

\* what a tick has read so far
NoRead == [snap |-> None, bids |-> 0, asks |-> 0]

(***************************************************************************)
(* The tables, the seed file and the HTTP handlers.                         *)
(***************************************************************************)
MaxRows == 2
MaxMail == 1
MaxChatRows == 22
MaxGuestRows == 1

\* LIMIT 20 of get_chat's query
ChatLimit == 20

\* post_chat's blacklist
Blacklist ==
    {"testblacklist", "nigger", "nigga", "nigg", "fag", "faggot", "bitch",
     "whore", "retard", "cunt", "paki", "kike", "coon", "gook"}

\* Blocked looking at the message alone
BlockedMessageOnly(user, chat_string) ==
    \E word \in Blacklist : Contains(chat_string, word)

\* block, after `for word in blacklist:`
Blocked(user, chat_string) ==
    \E word \in Blacklist : Contains(chat_string, word) \/ Contains(user, word)

AlnumChars == LowerSet \cup UpperSet \cup DigitSet
LocalChars == AlnumChars \cup {"_", ".", "+", "-"}
DomainChars == AlnumChars \cup {"-"}
SuffixChars == AlnumChars \cup {"-", "."}

\* re.search(r"[a-zA-Z0-9_.+-]+@[a-zA-Z0-9-]+\.[a-zA-Z0-9-.]+", s): some "@"
\* at a, with a local character before it, one or more domain characters
\* after it up to a "." at d, and a suffix character after that
EmailMatches(s) ==
    \E a \in 2..Len(s), d \in 3..(Len(s) - 1) :
        /\ Ch(s, a) = "@"
        /\ Ch(s, a - 1) \in LocalChars
        /\ d > a + 1
        /\ \A k \in (a + 1)..(d - 1) : Ch(s, k) \in DomainChars
        /\ Ch(s, d) = "."
        /\ Ch(s, d + 1) \in SuffixChars

\* the id SQLite gives the next row of chat
NextId(table) ==
    IF table = {} THEN 1
    ELSE 1 + (CHOOSE n \in {r.id : r \in table} : \A r \in table : r.id <= n)

\* the row INSERT INTO chat (user, chatString, entityType) adds; the
\* timestamp column is left to the table's default
ChatRow(table, user, chat_string) ==
    [id |-> NextId(table), timestamp |-> None, user |-> user,
     chatString |-> chat_string, entityType |-> "person"]

RECURSIVE OrderByIdDesc(_)
OrderByIdDesc(rows) ==
    IF rows = {} THEN <<>>
    ELSE LET top == CHOOSE r \in rows : \A q \in rows : q.id <= r.id
         IN <<top>> \o OrderByIdDesc(rows \ {top})

RECURSIVE OrderByIdAsc(_)
OrderByIdAsc(rows) ==
    IF rows = {} THEN <<>>
    ELSE LET low == CHOOSE r \in rows : \A q \in rows : q.id >= r.id
         IN <<low>> \o OrderByIdAsc(rows \ {low})

Limit(rowSeq, n) == SubSeq(rowSeq, 1, Min(n, Len(rowSeq)))

RowsOf(rowSeq) == {rowSeq[i] : i \in 1..Len(rowSeq)}

\* ChatQuery with the inner ORDER BY ascending: the oldest rows
ChatQueryOldest(table) ==
    OrderByIdAsc(RowsOf(Limit(OrderByIdAsc(table), ChatLimit)))

\* SELECT * FROM (SELECT * FROM chat ORDER BY id DESC LIMIT 20)Var1
\* ORDER BY id ASC
ChatQuery(table) == OrderByIdAsc(RowsOf(Limit(OrderByIdDesc(table), ChatLimit)))

\* the list get_chat builds from the cursor
ChatList(rowSeq) ==
    [i \in 1..Len(rowSeq) |->
        [timestamp |-> rowSeq[i].timestamp, agent |-> rowSeq[i].user,
         chat |-> rowSeq[i].chatString, entityType |-> rowSeq[i].entityType]]

Text(s) == [kind |-> "text", body |-> s]
Json(v) == [kind |-> "json", body |-> v]
Raised(e) == [kind |-> "raised", body |-> e]

Request(op, user, chat_string, email, sqlError) ==
    [op |-> op, user |-> user, chat_string |-> chat_string, email |-> email,
     sqlError |-> sqlError]

NoRequest == Request("", "", "", "", FALSE)

\* the seed files of the model
SeedTrack ==
    [artist |-> "Nova Aria", release |-> "Chromatic Drift",
     following |-> Some(<< <<"gallery", 1>>, <<"collectors", 5>> >>),
     beats |-> Some(<< [event |-> Some("teaser"), delta |-> FullDelta],
                       [event |-> Some("drop"), delta |-> None] >>)]
BareTrack ==
    [artist |-> "Nova Aria", release |-> "Chromatic Drift",
     following |-> None, beats |-> None]
\* a file that is not there, one that is not JSON, and two that parse
MissingFile == [exists |-> FALSE, parses |-> FALSE, track |-> BareTrack]
MalformedFile == [exists |-> TRUE, parses |-> FALSE, track |-> BareTrack]
ValidFile(t) == [exists |-> TRUE, parses |-> TRUE, track |-> t]
SeedFiles == {MissingFile, MalformedFile, ValidFile(SeedTrack), ValidFile(BareTrack)}

\* what get_release returns or raises
ReleaseResponse(file) ==
    IF ~file.exists THEN Json(<<>>)
    ELSE IF ~file.parses THEN Raised("JSONDecodeError")
    ELSE Json(CreativeTrackToPoints(file.track))

HandlerFollowing ==
    << <<"mainstream", 40>>, <<"tiktok", 30>>, <<"gallery", 10>>,
       <<"collectors", 10>>, <<"niche", 10>> >>

\* the state dict of get_release_state for a parsed track
StateOf(t) ==
    LET beats == ServerBeatsOf(t)
        hasLast == Len(beats) > 0
        last == beats[Len(beats)]
        delta == IF hasLast THEN DeltaOf(last)
                 ELSE [hype |-> 0, press |-> 0, virality |-> 0]
    IN [artist |-> t.artist, release |-> t.release,
        event |-> IF hasLast /\ ~IsNone(last.event) THEN Val(last.event) ELSE "",
        hype |-> delta.hype, press |-> delta.press, virality |-> delta.virality,
        following |-> IF IsNone(t.following) THEN HandlerFollowing
                      ELSE Val(t.following),
        listing_pressure |-> 15000]

\* what get_release_state returns or raises
ReleaseStateResponse(file) ==
    IF ~file.exists THEN Json("{}")
    ELSE IF ~file.parses THEN Raised("JSONDecodeError")
    ELSE Json(StateOf(file.track))

\* what post_chat returns
PostChatResponse(user, chat_string) ==
    IF Blocked(user, chat_string) THEN Text("you can't say that") ELSE Text("chat")

\* the chat table after post_chat
PostChatTable(table, user, chat_string, sqlError) ==
    IF Blocked(user, chat_string) \/ sqlError THEN table
    ELSE table \cup {ChatRow(table, user, chat_string)}

\* what email returns
EmailResponse(e) ==
    IF EmailMatches(e) THEN Text("valid email") ELSE Text("invalid email")

\* the mail table after email
EmailTable(table, e, sqlError) ==
    IF EmailMatches(e) /\ ~sqlError THEN Append(table, e) ELSE table

\* what get_chat returns
ChatResponse(table, sqlError) ==
    IF sqlError THEN Text("chat") ELSE Json(ChatList(ChatQuery(table)))

WebUsers == {"ann", "raccoon"}
WebMsgs == {"hello", "a testblacklist b"}
WebEmails == {"a@b.co", "not an email", "x@y", "<a.b+c@d-e.org>", "a@.co"}
ChatUsers == {"ann", "bob"}
ChatMsgs == {"hello"}

GuestRows(table) == Cardinality({r \in table : r.user # "ann"})

\* POST /userchat.  The table is capped at maxRows rows, maxGuests of them
\* by users other than "ann".
PostChat(users, msgs, maxRows, maxGuests) ==
    /\ \E user \in users, chat_string \in msgs, sqlError \in BOOLEAN :
          /\ (~Blocked(user, chat_string) /\ ~sqlError) =>
                /\ Cardinality(chat) < maxRows
                /\ user # "ann" => GuestRows(chat) < maxGuests
          /\ lastReq' = Request("POST /userchat", user, chat_string, "", sqlError)
          /\ resp' = PostChatResponse(user, chat_string)
          /\ chat' = PostChatTable(chat, user, chat_string, sqlError)
    /\ UNCHANGED <<mail, seedFile>>
    /\ UNCHANGED <<tickerVars, geoVars, ipVars>>

\* POST /email
Email ==
    /\ \E e \in WebEmails, sqlError \in BOOLEAN :
          /\ (EmailMatches(e) /\ ~sqlError) => Len(mail) < MaxMail
          /\ lastReq' = Request("POST /email", "", "", e, sqlError)
          /\ resp' = EmailResponse(e)
          /\ mail' = EmailTable(mail, e, sqlError)
    /\ UNCHANGED <<chat, seedFile>>
    /\ UNCHANGED <<tickerVars, geoVars, ipVars>>

\* GET /chat
GetChat ==
    /\ \E sqlError \in BOOLEAN :
          /\ lastReq' = Request("GET /chat", "", "", "", sqlError)
          /\ resp' = ChatResponse(chat, sqlError)
    /\ UNCHANGED <<chat, mail, seedFile>>
    /\ UNCHANGED <<tickerVars, geoVars, ipVars>>

\* GET /release
GetRelease ==
    /\ lastReq' = Request("GET /release", "", "", "", FALSE)
    /\ resp' = ReleaseResponse(seedFile)
    /\ UNCHANGED <<chat, mail, seedFile>>
    /\ UNCHANGED <<tickerVars, geoVars, ipVars>>

\* GET /release_state
GetReleaseState ==
    /\ lastReq' = Request("GET /release_state", "", "", "", FALSE)
    /\ resp' = ReleaseStateResponse(seedFile)
    /\ UNCHANGED <<chat, mail, seedFile>>
    /\ UNCHANGED <<tickerVars, geoVars, ipVars>>

\* GET /market: json.dumps(market), read without the lock
GetMarket ==
    /\ lastReq' = Request("GET /market", "", "", "", FALSE)
    /\ resp' = Json(market)
    /\ UNCHANGED <<chat, mail, seedFile>>
    /\ UNCHANGED <<tickerVars, geoVars, ipVars>>

\* the environment writes, corrupts or removes the seed file
SetSeedFile ==
    /\ \E f \in SeedFiles : seedFile' = f
    /\ UNCHANGED <<webVars, tickerVars, geoVars, ipVars>>

(***************************************************************************)
(* The daemon thread and update_market.                                      *)
(***************************************************************************)
\* seed = _load_release_seed(); with _release_lock: _release_state.update(seed)
DaemonStart ==
    /\ pcD = "start"
    /\ rs' = SeedUpdate(rs, seedFile)
    /\ pcD' = "idle"
    /\ UNCHANGED <<market, ticks, alive, lockHolder, dRead>>
    /\ UNCHANGED <<webVars, seedFile, geoVars, ipVars>>

\* update_market(market_state): rebinds the global, taking no lock
UpdateMarket ==
    /\ \E m \in MarketSet : market' = m
    /\ UNCHANGED <<rs, ticks, alive, pcD, lockHolder, dRead>>
    /\ UNCHANGED <<webVars, seedFile, geoVars, ipVars>>

\* one iteration of `while True:` with no other thread running inside it.
\* elapsed is now - last_tick.
TickWith(elapsedSet, rollSet, randSet, maxTicks) ==
    /\ pcD = "idle"
    /\ alive
    /\ ticks < maxTicks
    /\ \E elapsed \in elapsedSet, roll \in rollSet, u \in randSet :
          rs' = TickBody(rs, market, Max(DtFloor, elapsed), roll, u)
    /\ alive' = ~MarketRaises(market)
    /\ ticks' = IF MarketRaises(market) THEN ticks ELSE ticks + 1
    /\ UNCHANGED <<market, pcD, lockHolder, dRead>>
    /\ UNCHANGED <<webVars, seedFile, geoVars, ipVars>>

Tick == TickWith(DtSet, RollSet, RandSet, MaxTicks)

\* a tick of the long run: nominal dt, the largest second draw
LongTick == TickWith({10}, RollSet, {9}, MaxLongTicks)

(***************************************************************************)
(* The same iteration step by step, for the interleavings with              *)
(* update_market: _apply_market_influence reads the global `market` four     *)
(* times (isinstance, bid_list, ask_list, price).                           *)
(***************************************************************************)
\* with _release_lock: (entering)
DaemonAcquire ==
    /\ pcD = "idle" /\ alive /\ ticks < MaxRaceTicks
    /\ lockHolder = "none"
    /\ lockHolder' = "daemon"
    /\ pcD' = "decay"
    /\ UNCHANGED <<rs, market, ticks, alive, dRead>>
    /\ UNCHANGED <<webVars, seedFile, geoVars, ipVars>>

\* _apply_decay(_release_state, dt)
DaemonDecay ==
    /\ pcD = "decay"
    /\ rs' = ApplyDecay(rs, Max(DtFloor, 10))
    /\ pcD' = "isdict"
    /\ UNCHANGED <<market, ticks, alive, lockHolder, dRead>>
    /\ UNCHANGED <<webVars, seedFile, geoVars, ipVars>>

\* if isinstance(market, dict):
DaemonIsDict ==
    /\ pcD = "isdict"
    /\ dRead' = [dRead EXCEPT !.snap = Some(market)]
    /\ pcD' = IF market.isDict THEN "bids" ELSE "fire"
    /\ UNCHANGED <<rs, market, ticks, alive, lockHolder>>
    /\ UNCHANGED <<webVars, seedFile, geoVars, ipVars>>

\* the exception leaves the `with` block, which releases the lock, and ends
\* the thread
DaemonDies ==
    /\ alive' = FALSE
    /\ lockHolder' = "none"
    /\ pcD' = "dead"
    /\ UNCHANGED <<rs, market, ticks, dRead>>

\* bids = len(market.get("bid_list", []) or []): raises when `market` is by
\* now no dict or its bid_list has no len()
DaemonReadBids ==
    /\ pcD = "bids"
    /\ IF ~market.isDict \/ ~market.sized THEN DaemonDies
       ELSE /\ dRead' = [dRead EXCEPT !.bids = market.bids]
            /\ pcD' = "asks"
            /\ UNCHANGED <<rs, market, ticks, alive, lockHolder>>
    /\ UNCHANGED <<webVars, seedFile, geoVars, ipVars>>

\* asks = len(market.get("ask_list", []) or [])
DaemonReadAsks ==
    /\ pcD = "asks"
    /\ IF ~market.isDict \/ ~market.sized THEN DaemonDies
       ELSE /\ dRead' = [dRead EXCEPT !.asks = market.asks]
            /\ pcD' = "price"
            /\ UNCHANGED <<rs, market, ticks, alive, lockHolder>>
    /\ UNCHANGED <<webVars, seedFile, geoVars, ipVars>>

\* price = market.get("price"), and the rest of _apply_market_influence
DaemonReadPrice ==
    /\ pcD = "price"
    /\ IF ~market.isDict THEN DaemonDies
       ELSE /\ rs' = ApplyMarketInfluence(rs, dRead.bids, dRead.asks, market.price)
            /\ pcD' = "fire"
            /\ UNCHANGED <<market, ticks, alive, lockHolder, dRead>>
    /\ UNCHANGED <<webVars, seedFile, geoVars, ipVars>>

\* _fire_micro_event(_release_state), and leaving the `with` block
DaemonFire ==
    /\ pcD = "fire"
    /\ \E roll \in RollSet, u \in {0} : rs' = FireMicroEvent(rs, roll, u)
    /\ lockHolder' = "none"
    /\ pcD' = "idle"
    /\ ticks' = ticks + 1
    /\ dRead' = NoRead
    /\ UNCHANGED <<market, alive>>
    /\ UNCHANGED <<webVars, seedFile, geoVars, ipVars>>

(***************************************************************************)
(* Calls of the generators and of the interpolation.                        *)
(***************************************************************************)
MaxSteps == 8

LonSet == {-739857, -1276, 23522, 1396917}
LatSet == {-339180, 407580, 515072}

Call(fn, home, out) == [fn |-> fn, home |-> home, out |-> out]

\* creative_track_to_points(track)
CallServer ==
    /\ Len(calls) < MaxCalls
    /\ calls' = Append(calls, Call("creative_track_to_points", ServerHome(track),
                                   CreativeTrackToPoints(track)))
    /\ UNCHANGED <<track, now>>
    /\ UNCHANGED <<tickerVars, webVars, seedFile, ipVars>>

\* build_creative_points(track)
CallGeo ==
    /\ Len(calls) < MaxCalls
    /\ calls' = Append(calls, Call("build_creative_points", GeoHome(track),
                                   BuildCreativePoints(track, now)))
    /\ UNCHANGED <<track, now>>
    /\ UNCHANGED <<tickerVars, webVars, seedFile, ipVars>>

\* a millisecond passes
ClockTick ==
    /\ now < MaxClock
    /\ now' = now + 1
    /\ UNCHANGED <<track, calls>>
    /\ UNCHANGED <<tickerVars, webVars, seedFile, ipVars>>

\* _interpolate(lon1, lat1, lon2, lat2, steps)
RunInterpolate ==
    /\ ipOut' = [fn |-> "_interpolate",
                 pts |-> Interpolate(ipIn.lon1, ipIn.lat1, ipIn.lon2, ipIn.lat2,
                                     ipIn.steps)]
    /\ UNCHANGED ipIn
    /\ UNCHANGED <<tickerVars, webVars, seedFile, geoVars>>

\* interpolate(lon1, lat1, lon2, lat2, steps)
RunGeoInterpolate ==
    /\ ipOut' = [fn |-> "interpolate",
                 pts |-> GeoInterpolate(ipIn.lon1, ipIn.lat1, ipIn.lon2, ipIn.lat2,
                                        ipIn.steps)]
    /\ UNCHANGED ipIn
    /\ UNCHANGED <<tickerVars, webVars, seedFile, geoVars>>

(***************************************************************************)
(* Initial states and specifications.                                       *)
(***************************************************************************)
TickerStart ==
    /\ rs = InitialReleaseState
    /\ market = InitialMarket
    /\ ticks = 0
    /\ alive = TRUE
    /\ pcD = "start"
    /\ lockHolder = "none"
    /\ dRead = NoRead

WebStart ==
    /\ chat = {}
    /\ mail = <<>>
    /\ lastReq = NoRequest
    /\ resp = Text("")

GeoStart0 ==
    /\ track = BareTrack
    /\ calls = <<>>
    /\ now = 0

IpStart ==
    /\ ipIn = [lon1 |-> 0, lat1 |-> 0, lon2 |-> 0, lat2 |-> 0, steps |-> 1]
    /\ ipOut = [fn |-> "", pts |-> <<>>]

\* the daemon with update_market, each iteration in one step
TickerInit ==
    /\ TickerStart /\ WebStart /\ GeoStart0 /\ IpStart
    /\ seedFile = ValidFile(SeedTrack)
TickerNext == DaemonStart \/ UpdateMarket \/ Tick
SpecTicker == TickerInit /\ [][TickerNext]_vars

\* the daemon left alone for MaxLongTicks iterations
LongRunInit ==
    /\ TickerStart /\ WebStart /\ GeoStart0 /\ IpStart
    /\ seedFile \in {MissingFile, ValidFile(SeedTrack)}
LongRunNext == DaemonStart \/ LongTick
SpecLongRun == LongRunInit /\ [][LongRunNext]_vars

\* the daemon step by step, with update_market and GET /market
RaceInit ==
    /\ TickerStart /\ WebStart /\ GeoStart0 /\ IpStart
    /\ seedFile = ValidFile(SeedTrack)
RaceNext ==
    \/ DaemonStart \/ DaemonAcquire \/ DaemonDecay \/ DaemonIsDict
    \/ DaemonReadBids \/ DaemonReadAsks \/ DaemonReadPrice \/ DaemonFire
    \/ UpdateMarket \/ GetMarket
SpecRace == RaceInit /\ [][RaceNext]_vars

\* the HTTP handlers over small tables
WebInit ==
    /\ TickerStart /\ WebStart /\ GeoStart0 /\ IpStart
    /\ seedFile \in SeedFiles
WebPostChat == PostChat(WebUsers, WebMsgs, MaxRows, MaxRows)
WebNext ==
    \/ WebPostChat \/ Email \/ GetChat \/ GetRelease \/ GetReleaseState
    \/ SetSeedFile
SpecWeb == WebInit /\ [][WebNext]_vars

\* the chat table grown past the query's limit
ChatInit ==
    /\ TickerStart /\ WebStart /\ GeoStart0 /\ IpStart
    /\ seedFile = MissingFile
LongPostChat == PostChat(ChatUsers, ChatMsgs, MaxChatRows, MaxGuestRows)
ChatNext == LongPostChat \/ GetChat
SpecChat == ChatInit /\ [][ChatNext]_vars

\* the generators on every track of TrackSet
GeoInit ==
    /\ TickerStart /\ WebStart /\ IpStart
    /\ seedFile = MissingFile
    /\ track \in TrackSet
    /\ calls = <<>>
    /\ now = 0
GeoNext == CallServer \/ CallGeo \/ ClockTick
SpecGeo == GeoInit /\ [][GeoNext]_vars

\* the interpolation on every pair of end points and step count
InterpInit ==
    /\ TickerStart /\ WebStart /\ GeoStart0
    /\ seedFile = MissingFile
    /\ ipIn \in [lon1 : LonSet, lat1 : LatSet, lon2 : LonSet, lat2 : LatSet,
                 steps : 1..MaxSteps]
    /\ ipOut = [fn |-> "", pts |-> <<>>]
InterpNext == RunInterpolate \/ RunGeoInterpolate
SpecInterp == InterpInit /\ [][InterpNext]_vars

(***************************************************************************)
(* Properties.                                                              *)
(***************************************************************************)

\* C1: at the end of every tick, whatever dt >= 0.2 and market snapshot it
\* ran with, hype >= 0, press >= 0 and listing_pressure >= 0.02.
C1_TickerFloors ==
    /\ rs.hype >= 0
    /\ rs.press >= 0
    /\ rs.listing_pressure >= 2000

\* a second tick whose decay was cut off at the floors: hype back at 0 from a
\* teaser's 3.0, listing_pressure at 0.02
C1_Witness ==
    /\ ticks >= 2
    /\ rs.hype = 0
    /\ rs.listing_pressure = 2000
    /\ rs.event = ""
    /\ rs.virality > 0

\* C2: a POST that fails validation inserts no row and says so (a denylisted
\* substring in chat_string or user: "you can't say that"; a string that
\* does not match the email pattern: 'invalid email'), and no row of chat
\* holds a denylisted substring in its user or message.
C2_Denylisted(str) == \E word \in Blacklist : Contains(str, word)
\* the strings of WebEmails the pattern matches, as re.search finds them
C2_MatchingEmails == {"a@b.co", "<a.b+c@d-e.org>"}
C2_RejectedPostsInsertNothing ==
    [][ /\ (/\ lastReq'.op = "POST /userchat"
            /\ C2_Denylisted(lastReq'.chat_string) \/ C2_Denylisted(lastReq'.user))
           => /\ resp'.kind = "text" /\ resp'.body = "you can't say that"
              /\ chat' = chat
        /\ (lastReq'.op = "POST /email" /\ lastReq'.email \notin C2_MatchingEmails)
           => /\ resp'.kind = "text" /\ resp'.body = "invalid email"
              /\ mail' = mail
        /\ \A r \in chat' :
              ~C2_Denylisted(r.user) /\ ~C2_Denylisted(r.chatString) ]_vars

\* a post by a denylisted user name turned away, with rows in both tables
C2_Witness ==
    /\ lastReq.op = "POST /userchat"
    /\ lastReq.user = "raccoon" /\ lastReq.chat_string = "hello"
    /\ resp.kind = "text" /\ resp.body = "you can't say that"
    /\ Cardinality(chat) = 1
    /\ Len(mail) = 1

\* C3: no failure (seed file missing, seed file not JSON, SQL error) leaves
\* a handler as an exception.
C3_NoHandlerRaises == resp.kind # "raised"

\* C4 as stated: the output has 4 points for every beat whose event is
\* teaser or critic_preview and 8 for every other beat.
C4_ShortBeats(beats) ==
    Cardinality({i \in 1..Len(beats) :
                    beats[i].event \in {Some("teaser"), Some("critic_preview")}})
C4_LengthByEvent ==
    \A k \in 1..Len(calls) :
        LET beats == IF IsNone(track.beats) THEN <<>> ELSE Val(track.beats) IN
        Len(calls[k].out) =
            4 * C4_ShortBeats(beats) + 8 * (Len(beats) - C4_ShortBeats(beats))

\* C4 amended: the event is compared as each generator reads it:
\* creative_track_to_points after stripping surrounding whitespace (a
\* missing event reads as ""), build_creative_points as it stands.  The
\* points come beat by beat, in beat order.
C4_EventRead(fn, beat) ==
    IF fn = "creative_track_to_points"
    THEN Some(Strip(IF IsNone(beat.event) THEN "" ELSE Val(beat.event)))
    ELSE beat.event
C4_Steps(fn, beat) ==
    IF C4_EventRead(fn, beat) \in {Some("teaser"), Some("critic_preview")}
    THEN 4 ELSE 8
RECURSIVE C4_BeatOfPoint(_, _)
C4_BeatOfPoint(fn, beats) ==
    IF Len(beats) = 0 THEN <<>>
    ELSE [i \in 1..C4_Steps(fn, Head(beats)) |-> Head(beats)]
         \o C4_BeatOfPoint(fn, Tail(beats))
C4_LengthByEventAsRead ==
    \A k \in 1..Len(calls) :
        LET beats == IF IsNone(track.beats) THEN <<>> ELSE Val(track.beats)
            fn == calls[k].fn
            want == C4_BeatOfPoint(fn, beats)
        IN /\ Len(calls[k].out) = Len(want)
           /\ \A i \in 1..Len(want) :
                 /\ fn = "creative_track_to_points"
                       => Some(calls[k].out[i].event) = C4_EventRead(fn, want[i])
                 /\ fn = "build_creative_points"
                       => calls[k].out[i].event = C4_EventRead(fn, want[i])
                 /\ calls[k].out[i].hype = DeltaOf(want[i]).hype

\* a padded critic_preview read as a 4-point beat by one generator and as an
\* 8-point beat by the other
C4_Witness ==
    /\ track.beats = Some(<< [event |-> Some(" critic_preview "), delta |-> None],
                             [event |-> Some("drop"), delta |-> FullDelta] >>)
    /\ Len(calls) = 2
    /\ calls[1].fn = "creative_track_to_points" /\ Len(calls[1].out) = 12
    /\ calls[2].fn = "build_creative_points" /\ Len(calls[2].out) = 16

\* C5: in the call just made, home is a key of greatest weight in the
\* following map (its keys are region names, none empty), "mainstream" when
\* the map is absent or empty, and every point of a beat whose event is
\* unmapped or maps to no region names home as the region it heads for.
C5_MappedEvents ==
    {"teaser", "collab_reveal", "critic_preview", "record_sale", "controversy",
     "award", "platform_boost", "supply_extension"}
C5_EventName(ev) == IF ev = <<>> THEN "" ELSE ev[1]
C5_HomeIsDominant ==
    Len(calls) > 0 =>
        LET f == IF IsNone(track.following) THEN <<>> ELSE Val(track.following)
            last == calls[Len(calls)]
            home == last.home
            lowerHome == LowerAll(home)
            ev(x) == IF last.fn = "creative_track_to_points"
                     THEN x.event ELSE C5_EventName(x.event)
        IN /\ Len(f) = 0 => home = "mainstream"
           /\ Len(f) > 0 =>
                 \E i \in 1..Len(f) :
                    /\ f[i][1] = home
                    /\ \A j \in 1..Len(f) : f[j][2] <= f[i][2]
           /\ \A i \in 1..Len(last.out) :
                 ev(last.out[i]) \notin C5_MappedEvents
                    => LowerAll(last.out[i].proximity.name) = lowerHome

\* the following map {"a": 0.9, "b": 0.1} with a drop beat: home is "a"
C5_Witness ==
    /\ track.following = Some(<< <<"a", 9>>, <<"b", 1>> >>)
    /\ \E k \in 1..Len(calls) :
          /\ calls[k].home = "a"
          /\ Len(calls[k].out) = 8
          /\ calls[k].out[1].proximity.name = "A"
          /\ calls[k].out[1].hype = 12

\* C6: between two equal points _interpolate and interpolate return `steps`
\* points, each equal to that point.
C6_EqualEndPoints ==
    (ipOut.fn # "" /\ ipIn.lon1 = ipIn.lon2 /\ ipIn.lat1 = ipIn.lat2)
        => /\ Len(ipOut.pts) = ipIn.steps
           /\ \A i \in 1..Len(ipOut.pts) : ipOut.pts[i] = <<ipIn.lon1, ipIn.lat1>>

\* _interpolate run on equal end points with several steps
C6_Witness ==
    /\ ipOut.fn = "_interpolate"
    /\ ipIn.lon1 = ipIn.lon2 /\ ipIn.lat1 = ipIn.lat2
    /\ ipIn.steps >= 4
    /\ Len(ipOut.pts) = ipIn.steps

C7_Untimed(x) == [x EXCEPT !.timestamp = 0]
C8_Newest(table) ==
    {r \in table : Cardinality({q \in table : q.id > r.id}) < 20}
C8_Nth(rows, i) ==
    CHOOSE r \in rows : Cardinality({q \in rows : q.id < r.id}) = i - 1
C8_LastTwentyAscending ==
    (lastReq.op = "GET /chat" /\ ~lastReq.sqlError) =>
        LET top == C8_Newest(chat)
            n == Cardinality(chat)
        IN /\ resp.kind = "json"
           /\ Len(resp.body) = IF n < 20 THEN n ELSE 20
           /\ Cardinality(top) = Len(resp.body)
           /\ \A i \in 1..Len(resp.body) :
                 /\ resp.body[i].agent = C8_Nth(top, i).user
                 /\ resp.body[i].chat = C8_Nth(top, i).chatString
                 /\ resp.body[i].entityType = C8_Nth(top, i).entityType

\* 22 rows, the guest's row the third: it is the first of the 20 returned
C8_Witness ==
    /\ lastReq.op = "GET /chat" /\ ~lastReq.sqlError
    /\ Cardinality(chat) = 22
    /\ \E r \in chat : r.id = 3 /\ r.user = "bob"
    /\ resp.kind = "json"
    /\ Len(resp.body) = 20
    /\ resp.body[1].agent = "bob"

\* C9: while the tick, holding _release_lock, is part-way through reading the
\* market snapshot, no other thread replaces that snapshot.
C9_NoWriteUnderReader ==
    (lockHolder = "daemon" /\ pcD \in {"bids", "asks", "price"})
        => dRead.snap = Some(market)

\* C10: hype and press stay in 0..100, virality and listing_pressure in 0..1.
C10_MetricsInRange ==
    /\ rs.hype >= 0 /\ rs.hype <= 10000000
    /\ rs.press >= 0 /\ rs.press <= 10000000
    /\ rs.virality >= 0 /\ rs.virality <= 100000
    /\ rs.listing_pressure >= 0 /\ rs.listing_pressure <= 100000

=============================================================================
